---------------------------- MODULE Spec2Model ----------------------------
(***************************************************************************)
(* A model of src/_svmlight_loader.cpp: the SVMlight/libSVM line parser    *)
(* (parse_line), the CSR builder (parse_file, load_svmlight_file) and the  *)
(* writer (dump_svmlight_file).                                            *)
(*                                                                         *)
(* Text is modelled character by character: a line is a sequence of        *)
(* one-character strings, and the stream extractions and sscanf calls of   *)
(* the source are operators that walk that sequence.  A double is held in  *)
(* fixed point, as the integer number of 10^-FracDigits units; the lines   *)
(* of the model carry at most FracDigits fractional digits and no          *)
(* exponent, hexadecimal, inf or nan spelling (the alphabet has none of    *)
(* the letters e, x, n, and i occurs only inside "qid").                   *)
(***************************************************************************)
EXTENDS Integers, Sequences, FiniteSets, TLC

\* Number of lines of the longest source file of the model.
MaxLines == 3

\* Fractional decimal digits kept by the fixed-point image of a double.
FracDigits == 3

\* Significant digits std::ostream prints of a double (its default precision).
Precision == 6

--------------------------------------------------------------------------
(* Characters and numbers *)

RECURSIVE Pow10(_)
Pow10(n) == IF n = 0 THEN 1 ELSE 10 * Pow10(n - 1)

Scale == Pow10(FracDigits)

DigitChars == <<"0", "1", "2", "3", "4", "5", "6", "7", "8", "9">>

IsDigit(c) == \E i \in 1..10 : DigitChars[i] = c

DigitVal(c) == (CHOOSE i \in 1..10 : DigitChars[i] = c) - 1

\* isspace(), on the alphabet of the model.
IsSpace(c) == c = " "

\* The stream's or sscanf's skip of leading white space: the first position
\* at or after p that holds no white space (Len(s) + 1 at the end).
RECURSIVE SkipWs(_, _)
SkipWs(s, p) ==
  IF p <= Len(s) /\ IsSpace(s[p]) THEN SkipWs(s, p + 1) ELSE p

\* The position after the run of digits that starts at p.
RECURSIVE DigitsEnd(_, _)
DigitsEnd(s, p) ==
  IF p <= Len(s) /\ IsDigit(s[p]) THEN DigitsEnd(s, p + 1) ELSE p

\* The value of the digits s[p..q-1].
RECURSIVE DigitsValue(_, _, _)
DigitsValue(s, p, q) ==
  IF q <= p THEN 0 ELSE 10 * DigitsValue(s, p, q - 1) + DigitVal(s[q - 1])

\* The first FracDigits digits of s[p..q-1] read as a fraction, in units of
\* 10^-FracDigits.
FracValue(s, p, q) ==
  LET n == q - p
  IN  IF n >= FracDigits
      THEN DigitsValue(s, p, p + FracDigits)
      ELSE DigitsValue(s, p, q) * Pow10(FracDigits - n)

HasSign(s, p) == p <= Len(s) /\ s[p] \in {"+", "-"}

\* An unsigned integer at p, as %u and operator>>(unsigned&) read it: an
\* optional sign, then digits.  A negative value wraps to 2^32 - v, which
\* int(idx) turns into -v: val is the value int(idx) has, for the
\* magnitudes below 2^31 that the lines of the model hold.
ScanUnsigned(s, p) ==
  LET b == IF HasSign(s, p) THEN p + 1 ELSE p
      e == DigitsEnd(s, b)
      v == DigitsValue(s, b, e)
  IN  IF e = b
      THEN [ok |-> FALSE, val |-> 0, pos |-> p]
      ELSE [ok |-> TRUE,
            val |-> IF HasSign(s, p) /\ s[p] = "-" THEN 0 - v ELSE v,
            pos |-> e]

\* A double at p, as %lf and operator>>(double&) read it: an optional sign,
\* digits, an optional '.' and digits, with at least one digit.
ScanDouble(s, p) ==
  LET b  == IF HasSign(s, p) THEN p + 1 ELSE p
      ie == DigitsEnd(s, b)
      dot == ie <= Len(s) /\ s[ie] = "."
      fe == IF dot THEN DigitsEnd(s, ie + 1) ELSE ie
      nd == (ie - b) + (IF dot THEN fe - (ie + 1) ELSE 0)
      mag == DigitsValue(s, b, ie) * Scale
             + (IF dot THEN FracValue(s, ie + 1, fe) ELSE 0)
  IN  IF nd = 0
      THEN [ok |-> FALSE, val |-> 0, pos |-> p]
      ELSE [ok |-> TRUE,
            val |-> IF HasSign(s, p) /\ s[p] = "-" THEN 0 - mag ELSE mag,
            pos |-> fe]

\* in >> u for an unsigned u: white space is skipped first.
ExtractUnsigned(s, p) == ScanUnsigned(s, SkipWs(s, p))

\* in >> x for a double x.
ExtractDouble(s, p) == ScanDouble(s, SkipWs(s, p))

\* in >> c for a char c.
ExtractChar(s, p) ==
  LET b == SkipWs(s, p)
  IN  IF b > Len(s)
      THEN [ok |-> FALSE, val |-> "", pos |-> b]
      ELSE [ok |-> TRUE, val |-> s[b], pos |-> b + 1]

\* The position after the run of non-space characters that starts at p.
RECURSIVE WordEnd(_, _)
WordEnd(s, p) ==
  IF p <= Len(s) /\ ~IsSpace(s[p]) THEN WordEnd(s, p + 1) ELSE p

\* in >> str for a std::string str.
ExtractString(s, p) ==
  LET b == SkipWs(s, p)
      e == WordEnd(s, b)
  IN  IF b > Len(s)
      THEN [ok |-> FALSE, val |-> <<>>, pos |-> b]
      ELSE [ok |-> TRUE, val |-> SubSeq(s, b, e - 1), pos |-> e]

\* line.find('#'): the first position of c in s, 0 for npos.
RECURSIVE FindFrom(_, _, _)
FindFrom(s, c, p) ==
  IF p > Len(s) THEN 0
  ELSE IF s[p] = c THEN p
  ELSE FindFrom(s, c, p + 1)

Find(s, c) == FindFrom(s, c, 1)

--------------------------------------------------------------------------
(* parse_line *)

\* The five vectors load_svmlight_file owns, empty as constructed.
EmptyVectors ==
  [data |-> <<>>, indices |-> <<>>, indptr |-> <<>>, labels |-> <<>>,
   comments |-> <<>>]

\* sscanf(tok, "qid:%lf", &x): the number of conversions, -1 for EOF.
RECURSIVE MatchLiteral(_, _, _)
MatchLiteral(s, lit, k) ==
  IF k < Len(lit) /\ k < Len(s) /\ s[k + 1] = lit[k + 1]
  THEN MatchLiteral(s, lit, k + 1) ELSE k

ScanfQid(tok) ==
  LET lit == <<"q", "i", "d", ":">>
      k == MatchLiteral(tok, lit, 0)
  IN  IF k < Len(lit)
      THEN (IF k = Len(tok) THEN -1 ELSE 0)
      ELSE IF ScanDouble(tok, k + 1).ok THEN 1
      ELSE IF k = Len(tok) THEN -1 ELSE 0

\* sscanf(tok, "%u%c%lf", &idx, &c, &x): the number of conversions and the
\* values stored; a variable no conversion stored into keeps what it held,
\* and c is uninitialised before the call (its content is junk).
ScanfPair(tok, junk) ==
  LET u == ScanUnsigned(tok, 1)
      x == ScanDouble(tok, u.pos + 1)
  IN  IF ~u.ok THEN [n |-> 0, idx |-> 0, c |-> junk, x |-> 0]
      ELSE IF u.pos > Len(tok) THEN [n |-> 1, idx |-> u.val, c |-> junk, x |-> 0]
      ELSE IF ~x.ok THEN [n |-> 2, idx |-> u.val, c |-> tok[u.pos], x |-> 0]
      ELSE [n |-> 3, idx |-> u.val, c |-> tok[u.pos], x |-> x.val]

\* throw SyntaxError(msg): the vectors stay as they are at the throw.
Throw(v, msg) == [v |-> v, exc |-> "SyntaxError", what |-> msg]

Return(v) == [v |-> v, exc |-> "none", what |-> <<>>]

\* The record start with the row pointer taken from the wrong vector:
\* labels.push_back(y); indptr.push_back(labels.size());
PushRecordStartByLabels(v, y) ==
  [v EXCEPT !.labels = Append(@, y), !.indptr = Append(@, Len(v.labels) + 1)]

\* labels.push_back(y); indptr.push_back(data.size());
PushRecordStart(v, y) ==
  [v EXCEPT !.labels = Append(@, y), !.indptr = Append(@, Len(v.data))]

\* indices.push_back(int(idx)); data.push_back(x);
PushPair(v, idx, x) ==
  [v EXCEPT !.indices = Append(@, idx), !.data = Append(@, x)]

\* The comment pushed at the end of a record line: &line[hashIdx+1], the
\* rest of the line after the '#', or "" when the line has no '#'.
CommentOf(line, hashIdx) ==
  IF hashIdx # 0 THEN SubSeq(line, hashIdx + 1, Len(line)) ELSE <<>>

\* while (in >> idx >> c >> x) { ... }: the loop over the rest of the
\* payload, from stream position p; a failed extraction ends the loop.
RECURSIVE PairLoop(_, _, _)
PairLoop(in, p, v) ==
  LET idx == ExtractUnsigned(in, p)
      c == ExtractChar(in, idx.pos)
      x == ExtractDouble(in, c.pos)
  IN  IF ~idx.ok \/ ~c.ok \/ ~x.ok THEN Return(v)
      ELSE IF c.val # ":"
      THEN Throw(v, <<"expected ':', got '", c.val, "'">>)
      ELSE PairLoop(in, x.pos, PushPair(v, idx.val, x.val))

\* The second token of a record line: a qid annotation, or the first pair.
SecondToken(tok, v, junk) ==
  IF ScanfQid(tok) # 1
  THEN LET r == ScanfPair(tok, junk)
       IN  IF r.n = 3
           THEN Return(PushPair(v, r.idx, r.x))
           ELSE Throw(v, <<"expected ':', got '", r.c, "'">>)
  ELSE Return(v)

\* parse_line without its early return for a whole-line comment.
IsCommentLineNever(line) == FALSE

\* line[0] == '#'
IsCommentLine(line) == line[1] = "#"

\* parse_line(line, data, indices, indptr, labels, comments).  junk is the
\* content of the uninitialised char c.
parse_line(line, v, junk) ==
  IF Len(line) = 0 THEN Throw(v, <<"empty line">>)
  ELSE IF IsCommentLine(line) THEN Return(v)
  ELSE
    LET hashIdx == Find(line, "#")
        in == IF hashIdx = 0 THEN line ELSE SubSeq(line, 1, hashIdx - 1)
        y == ExtractDouble(in, 1)
    IN  IF ~y.ok THEN Throw(v, <<"non-numeric or missing label">>)
        ELSE
          LET v1 == PushRecordStart(v, y.val)
              q == ExtractString(in, y.pos)
          IN  IF ~q.ok THEN Throw(v1, <<"Missing qid label">>)
              ELSE
                LET r2 == SecondToken(q.val, v1, junk)
                    r3 == PairLoop(in, q.pos, r2.v)
                IN  IF r2.exc # "none" THEN r2
                    ELSE IF r3.exc # "none" THEN r3
                    ELSE Return([r3.v EXCEPT
                           !.comments = Append(@, CommentOf(line, hashIdx))])

\* parse_file's loop, as a function of the lines getline yields: parse the
\* lines from the k-th on, stopping at the first throw.
RECURSIVE Feed(_, _, _, _)
Feed(lines, k, v, junk) ==
  IF k > Len(lines) THEN Return(v)
  ELSE LET r == parse_line(lines[k], v, junk)
       IN  IF r.exc # "none" THEN r ELSE Feed(lines, k + 1, r.v, junk)

--------------------------------------------------------------------------
(* dump_svmlight_file *)

\* The decimal digits of n >= 0.
RECURSIVE DigitsOf(_)
DigitsOf(n) ==
  IF n < 10 THEN <<DigitChars[n + 1]>>
  ELSE DigitsOf(n \div 10) \o <<DigitChars[(n % 10) + 1]>>

\* fout << idx, for an int.
FormatInt(n) == IF n < 0 THEN <<"-">> \o DigitsOf(0 - n) ELSE DigitsOf(n)

\* The digits of f on w places, zeros in front.
RECURSIVE PadDigits(_, _)
PadDigits(f, w) ==
  IF w = 0 THEN <<>> ELSE PadDigits(f \div 10, w - 1) \o <<DigitChars[(f % 10) + 1]>>

RECURSIVE StripZeros(_)
StripZeros(d) ==
  IF Len(d) > 0 /\ d[Len(d)] = "0" THEN StripZeros(SubSeq(d, 1, Len(d) - 1)) ELSE d

\* a >= 0 rounded to its Precision leading decimal digits (half away from
\* zero; the values of the model have no tie).
RoundSignificant(a) ==
  LET n == Len(DigitsOf(a))
      u == IF n > Precision THEN Pow10(n - Precision) ELSE 1
  IN  ((a + (u \div 2)) \div u) * u

\* fout << x, for a double: %g with Precision significant digits, trailing
\* zeros and a trailing '.' removed.  The values of the model lie in
\* [10^-4, 10^Precision), where %g uses no exponent.
FormatDouble(x) ==
  LET a == RoundSignificant(IF x < 0 THEN 0 - x ELSE x)
      frac == StripZeros(PadDigits(a % Scale, FracDigits))
  IN  (IF x < 0 THEN <<"-">> ELSE <<>>)
      \o DigitsOf(a \div Scale)
      \o (IF frac = <<>> THEN <<>> ELSE <<".">> \o frac)

\* The inner loop of dump_svmlight_file over jj in [from, to): the
\* "idx:value " of each pair (jj counts from 0, sequences from 1).
RECURSIVE DumpPairs(_, _, _, _)
DumpPairs(D, from, to, zero_based) ==
  IF from >= to THEN <<>>
  ELSE LET idx == IF ~zero_based THEN D.indices[from + 1] + 1
                  ELSE D.indices[from + 1]
       IN  FormatInt(idx) \o <<":">> \o FormatDouble(D.data[from + 1]) \o <<" ">>
           \o DumpPairs(D, from + 1, to, zero_based)

\* The line written for sample i (from 1), without the end of line.
DumpLine(D, i, zero_based) ==
  FormatDouble(D.labels[i]) \o <<" ">>
  \o DumpPairs(D, D.indptr[i], D.indptr[i + 1], zero_based)
  \o <<"#", " ">> \o D.comments[i] \o <<" ">>

\* The lines written for the whole dataset: n_samples is the length of
\* indptr less one.
DumpLines(D, zero_based) ==
  [i \in 1..(Len(D.indptr) - 1) |-> DumpLine(D, i, zero_based)]

--------------------------------------------------------------------------
(* The files of the model *)

\* Record lines, whole-line comments and malformed lines, one file line each.
Lines ==
  { <<>>,                                                     \* (empty line)
    <<"#">>,                                                  \* #
    <<"#", " ", "o">>,                                        \* # o
    <<"1", " ", "5", ":", "0", ".", "2">>,                    \* 1 5:0.2
    <<"1", ".", "0", " ", "5", ":", "0", ".", "2", " ", "#", " ",
      "g", "o", "o", "d">>,                                   \* 1.0 5:0.2 # good
    <<"1", ".", "0", " ", "5", "-", "0", ".", "2">>,          \* 1.0 5-0.2
    <<"1", " ", "5", ":", "2", " ", "7", "-", "3">>,          \* 1 5:2 7-3
    <<"-", "1", " ", "3", ":", "4", ".", "0">>,               \* -1 3:4.0
    <<"1", " ", "2", ":", "1", ".", "0">>,                    \* 1 2:1.0
    <<"1", ".", "0", " ", "q", "i", "d", ":", "3", " ", "5", ":", "0", ".",
      "2", " ", "7", ":", "1", ".", "5">>,                    \* 1.0 qid:3 5:0.2 7:1.5
    <<"1", " ", "q", "i", "d", ":", "3">>,                    \* 1 qid:3
    <<"1", " ", "q", "i", "d", ":", "3", " ", "#", " ", "o">>,\* 1 qid:3 # o
    <<"1", " ", "q", "i", "d", ":", "3", " ", "5", "-", "2">>,\* 1 qid:3 5-2
    <<"1">>,                                                  \* 1
    <<"1", " ", "#", " ", "o">>,                              \* 1 # o
    <<"a", " ", "5", ":", "2">>,                              \* a 5:2
    <<"1", " ", "a">>,                                        \* 1 a
    <<"1", " ", "5", ":">>,                                   \* 1 5:
    <<"1", " ", "5", ":", "2", "a">>,                         \* 1 5:2a
    <<"1", " ", "5", ":", "2", " ", "a", " ", "7", ":", "3">>,\* 1 5:2 a 7:3
    <<"1", " ", "5", ":", "2", " ", "7", ":">>,               \* 1 5:2 7:
    <<"1", " ", "5", ":", "1", "2", "3", "4", ".", "5", "6", "7">>,
                                                              \* 1 5:1234.567
    <<"1", " ", "0", ":", "1", " ", "7", ":", "3", " ", "#", "o">>
                                                              \* 1 0:1 7:3 #o
  }

\* The lines the files of several lines are made of.
CoreLines ==
  { <<>>,                                                     \* (empty line)
    <<"#", " ", "o">>,                                        \* # o
    <<"1", " ", "5", ":", "0", ".", "2">>,                    \* 1 5:0.2
    <<"1", ".", "0", " ", "5", ":", "0", ".", "2", " ", "#", " ",
      "g", "o", "o", "d">>,                                   \* 1.0 5:0.2 # good
    <<"-", "1", " ", "3", ":", "4", ".", "0", " ", "2", ":", "1">>,
                                                              \* -1 3:4.0 2:1
    <<"1", " ", "q", "i", "d", ":", "3">>,                    \* 1 qid:3
    <<"1">>,                                                  \* 1
    <<"a", " ", "5", ":", "2">>,                              \* a 5:2
    <<"1", " ", "5", ":", "2", " ", "7", "-", "3">>           \* 1 5:2 7-3
  }

\* The files: every one-line file over Lines, every file of at most MaxLines
\* lines over CoreLines.
Sources ==
  {<<l>> : l \in Lines} \cup UNION {[1..n -> CoreLines] : n \in 0..MaxLines}

\* A path that cannot be opened.
NoFile == <<"(no file)">>

\* What the uninitialised char c of parse_line may hold.
JunkChars == {"a", ":"}

--------------------------------------------------------------------------
(* The state *)

VARIABLES
  pc,          \* where the caller and the running call are
  phase,       \* 1: the load of the source file; 2: the load of the dumped file
  file,        \* the lines of the file at load_svmlight_file's file_path
  pos,         \* the lines getline has read from it
  data, indices, indptr, labels, comments,
               \* the vectors of load_svmlight_file
  exc, what,   \* the exception in flight and its message
  ret, csr,    \* what load_svmlight_file returned: "NULL", or "tuple" and csr
  pyErr,       \* the Python error set
  orig,        \* the dataset handed to dump_svmlight_file
  zero_based,  \* its zero_based argument
  dest,        \* the lines of the file at dump_svmlight_file's file_path
  dumpRet,     \* what it returned
  ioFailed     \* whether opening or writing its destination failed

vars ==
  <<pc, phase, file, pos, data, indices, indptr, labels, comments, exc, what,
    ret, csr, pyErr, orig, zero_based, dest, dumpRet, ioFailed>>

loadVars == <<data, indices, indptr, labels, comments>>

dumpVars == <<orig, zero_based, dest, dumpRet, ioFailed>>

Vectors ==
  [data |-> data, indices |-> indices, indptr |-> indptr, labels |-> labels,
   comments |-> comments]

SetVectors(v) ==
  /\ data' = v.data
  /\ indices' = v.indices
  /\ indptr' = v.indptr
  /\ labels' = v.labels
  /\ comments' = v.comments

Init ==
  /\ pc = "open"
  /\ phase = 1
  /\ file \in Sources \cup {NoFile}
  /\ pos = 0
  /\ data = <<>> /\ indices = <<>> /\ indptr = <<>> /\ labels = <<>>
  /\ comments = <<>>
  /\ exc = "none" /\ what = <<>>
  /\ ret = "pending" /\ csr = EmptyVectors
  /\ pyErr = "none"
  /\ orig = EmptyVectors /\ zero_based = FALSE /\ dest = NoFile
  /\ dumpRet = "pending" /\ ioFailed = FALSE

--------------------------------------------------------------------------
(* load_svmlight_file *)

\* parse_file up to its loop: the stream is opened, and a file that cannot
\* be opened throws std::ios_base::failure.
Open ==
  /\ pc = "open"
  /\ IF file = NoFile
     THEN /\ pc' = "thrown"
          /\ exc' = "ios_base::failure"
          /\ what' = <<"File doesn't exist!">>
     ELSE /\ pc' = "reading"
          /\ UNCHANGED <<exc, what>>
  /\ UNCHANGED <<phase, file, pos, loadVars, ret, csr, pyErr, dumpVars>>

\* parse_file's loop with the throw of parse_line swallowed: the failing
\* line is skipped and the loop goes on.
GetLineSkipping ==
  /\ pc = "reading"
  /\ pos < Len(file)
  /\ \E junk \in JunkChars :
       LET r == parse_line(file[pos + 1], Vectors, junk)
       IN  SetVectors(IF r.exc = "none" THEN r.v ELSE Vectors)
  /\ pos' = pos + 1
  /\ UNCHANGED <<pc, exc, what, phase, file, ret, csr, pyErr, dumpVars>>

\* One turn of parse_file's loop: getline yields the next line and
\* parse_line parses it; its throw leaves the loop.
GetLine ==
  /\ pc = "reading"
  /\ pos < Len(file)
  /\ \E junk \in JunkChars :
       LET r == parse_line(file[pos + 1], Vectors, junk)
       IN  /\ SetVectors(r.v)
           /\ exc' = r.exc
           /\ what' = r.what
           /\ pc' = IF r.exc = "none" THEN "reading" ELSE "thrown"
  /\ pos' = pos + 1
  /\ UNCHANGED <<phase, file, ret, csr, pyErr, dumpVars>>

\* to_csr: the vectors' contents move, uncopied, into the arrays of the
\* tuple returned (to_1d_array swaps each vector empty), and each comment
\* becomes a Python string of the same characters.  An allocation that fails
\* there (std::bad_alloc) is outside the model.
to_csr(v) == v

\* getline fails at the end of the file: parse_file pushes the last indptr
\* entry and returns, and load_svmlight_file returns to_csr's tuple.
EndOfFile ==
  /\ pc = "reading"
  /\ pos = Len(file)
  /\ csr' = to_csr([Vectors EXCEPT !.indptr = Append(@, Len(data))])
  /\ ret' = "tuple"
  /\ SetVectors(EmptyVectors)
  /\ pc' = "loaded"
  /\ UNCHANGED <<phase, file, pos, exc, what, pyErr, dumpVars>>

\* The Python error a handler of load_svmlight_file sets for an exception.
PyErrOf(e) ==
  IF e = "SyntaxError" THEN "ValueError"
  ELSE IF e = "bad_alloc" THEN "MemoryError"
  ELSE IF e = "ios_base::failure" THEN "IOError"
  ELSE "RuntimeError"

\* The handlers of load_svmlight_file: the error is set and 0 is returned;
\* the vectors were destroyed when the exception left their scope.
Catch ==
  /\ pc = "thrown"
  /\ pyErr' = PyErrOf(exc)
  /\ ret' = "NULL"
  /\ csr' = EmptyVectors
  /\ SetVectors(EmptyVectors)
  /\ pc' = "failed"
  /\ UNCHANGED <<phase, file, pos, exc, what, dumpVars>>

--------------------------------------------------------------------------
(* dump_svmlight_file *)

\* What dump_svmlight_file returns: fout's exception mask is empty, so a
\* failed open or write only sets the stream's state, nothing is thrown and
\* the handler of the function is not entered.
DumpReturn(failed) == "None"

\* dump_svmlight_file on the dataset the load returned.  The destination
\* cannot be opened (it stays as it was), or a write fails after the first
\* k lines and the later writes do nothing, or every line is written.
Dump ==
  /\ pc = "loaded"
  /\ phase = 1
  /\ \E zb \in BOOLEAN, io \in {"ok", "open fails", "write fails"} :
       LET out == DumpLines(csr, zb)
       IN  /\ zero_based' = zb
           /\ ioFailed' = (io # "ok")
           /\ dumpRet' = DumpReturn(io # "ok")
           /\ \/ /\ io = "ok"
                 /\ dest' = out
              \/ /\ io = "open fails"
                 /\ dest' = dest
              \/ /\ io = "write fails"
                 /\ \E k \in 0..(Len(out) - 1) : dest' = SubSeq(out, 1, k)
  /\ orig' = csr
  /\ pc' = "dumped"
  /\ UNCHANGED <<phase, file, pos, loadVars, exc, what, ret, csr, pyErr>>

\* The caller loads the file dump_svmlight_file wrote.
CallLoad ==
  /\ pc = "dumped"
  /\ phase' = 2
  /\ file' = dest
  /\ pos' = 0
  /\ ret' = "pending"
  /\ csr' = EmptyVectors
  /\ pc' = "open"
  /\ UNCHANGED <<loadVars, exc, what, pyErr, dumpVars>>

Next == Open \/ GetLine \/ EndOfFile \/ Catch \/ Dump \/ CallLoad

Spec == Init /\ [][Next]_vars

--------------------------------------------------------------------------
(* The index convention of the caller *)

\* The indices a caller that reads with the convention zero_based gets from
\* the arrays load_svmlight_file returned: the on-disk indices are one-based
\* unless zero_based, and the reader shifts them down by one.
IndicesAsRead(ix, zb) == IF zb THEN ix ELSE [i \in DOMAIN ix |-> ix[i] - 1]

--------------------------------------------------------------------------
(* The vocabulary of the properties *)

\* A whole-line comment: a line whose first character is '#'.
WholeLineComment(l) == Len(l) > 0 /\ l[1] = "#"

\* The lines of a file that are not whole-line comments.
RecordLinesOf(lines) == SelectSeq(lines, LAMBDA l : ~WholeLineComment(l))

\* The data payload of a line: the text before its first '#'.
Payload(l) == IF Find(l, "#") = 0 THEN l ELSE SubSeq(l, 1, Find(l, "#") - 1)

\* The white-space separated tokens of s from position p on.
RECURSIVE TokensFrom(_, _)
TokensFrom(s, p) ==
  LET b == SkipWs(s, p)
      e == WordEnd(s, b)
  IN  IF b > Len(s) THEN <<>> ELSE <<SubSeq(s, b, e - 1)>> \o TokensFrom(s, e)

Tokens(s) == TokensFrom(s, 1)

\* A token that is a number and nothing else.
NumberToken(tok) == ScanDouble(tok, 1).ok /\ ScanDouble(tok, 1).pos = Len(tok) + 1

\* A token of the shape qid:<number>.
QidToken(tok) ==
  /\ Len(tok) > 4
  /\ SubSeq(tok, 1, 4) = <<"q", "i", "d", ":">>
  /\ NumberToken(SubSeq(tok, 5, Len(tok)))

\* A token of the shape <uint><c><float>, c one character.
PairShaped(tok) ==
  LET u == ScanUnsigned(tok, 1)
  IN  /\ Len(tok) > 0 /\ IsDigit(tok[1])
      /\ u.pos < Len(tok)
      /\ NumberToken(SubSeq(tok, u.pos + 1, Len(tok)))

SeparatorOf(tok) == tok[ScanUnsigned(tok, 1).pos]

\* A token of the shape <uint>:<float>.
WellFormedPair(tok) == PairShaped(tok) /\ SeparatorOf(tok) = ":"

\* The feature tokens of a record line: the tokens of its payload after the
\* label and after the qid token, if the second token is one.
FeatureTokens(l) ==
  LET t == Tokens(Payload(l))
  IN  IF Len(t) >= 2 /\ QidToken(t[2]) THEN SubSeq(t, 3, Len(t))
      ELSE SubSeq(t, 2, Len(t))

\* parse_line throws on the line.
LineFails(l) == parse_line(l, EmptyVectors, "a").exc # "none"

\* The pairs parse_line appends for the line.
PairsOf(l) ==
  LET v == parse_line(l, EmptyVectors, "a").v
  IN  [indices |-> v.indices, data |-> v.data]

\* Line k of the file has been read and parse_line returned from it.
LineAccepted(k) ==
  /\ file # NoFile
  /\ k \in 1..pos
  /\ (pc \in {"thrown", "failed"} => k < pos)

\* The vectors are being filled or have been returned.
Built == pc \in {"reading", "loaded", "dumped"}

Arr == IF pc = "reading" THEN Vectors ELSE csr

\* The record that line k of the file makes.
RecOf(k) == Len(RecordLinesOf(SubSeq(file, 1, k)))

\* The offsets of record rec in data and indices: [RowStart, RowEnd).
RowStart(rec) == Arr.indptr[rec]

RowEnd(rec) ==
  IF rec < Len(Arr.indptr) THEN Arr.indptr[rec + 1] ELSE Len(Arr.data)

\* The pairs stored for record rec.
RowOf(rec) ==
  [indices |-> SubSeq(Arr.indices, RowStart(rec) + 1, RowEnd(rec)),
   data |-> SubSeq(Arr.data, RowStart(rec) + 1, RowEnd(rec))]

\* The file was read to its end and a dataset returned.
Loaded == pc \in {"loaded", "dumped"} /\ ret = "tuple"

--------------------------------------------------------------------------
(* C1 *)

\* C1: whenever the build succeeds, indptr has len(labels)+1 entries, starts
\* at 0, does not decrease, steps by the number of feature pairs of each
\* record, and ends at len(data) = len(indices); the empty source gives
\* indptr = [0] and nothing else.
C1_IndptrInvariant ==
  Loaded =>
    LET n == Len(csr.labels)
        recs == RecordLinesOf(file)
    IN  /\ n = Len(recs)
        /\ Len(csr.indptr) = n + 1
        /\ csr.indptr[1] = 0
        /\ \A i \in 1..n :
             /\ csr.indptr[i] <= csr.indptr[i + 1]
             /\ csr.indptr[i + 1] - csr.indptr[i] = Len(PairsOf(recs[i]).data)
        /\ csr.indptr[n + 1] = Len(csr.data)
        /\ Len(csr.data) = Len(csr.indices)
        /\ (file = <<>> =>
              /\ csr.indptr = <<0>>
              /\ csr.data = <<>> /\ csr.indices = <<>> /\ csr.labels = <<>>)

\* A returned dataset built from a file with a whole-line comment, a record
\* without pairs and a record with two.
C1_Witness ==
  /\ pc = "loaded" /\ phase = 1
  /\ Len(csr.labels) >= 2
  /\ \E l \in 1..Len(file) : WholeLineComment(file[l])
  /\ \E i \in 1..Len(csr.labels) : csr.indptr[i + 1] = csr.indptr[i]
  /\ \E i \in 1..Len(csr.labels) : csr.indptr[i + 1] = csr.indptr[i] + 2

--------------------------------------------------------------------------
(* C6 *)

\* The first line of the file that parse_line throws on, 0 if none.
FirstFailing(lines) ==
  IF \E k \in 1..Len(lines) : LineFails(lines[k])
  THEN CHOOSE k \in 1..Len(lines) :
         /\ LineFails(lines[k])
         /\ \A j \in 1..(k - 1) : ~LineFails(lines[j])
  ELSE 0

\* C6: a SyntaxError on line k aborts the build at once: line k is the last
\* line read, the load returns NULL with ValueError set, and nothing of the
\* vectors filled so far reaches the caller; a build goes past a line only
\* if parse_line returned from it.
C6_SyntaxErrorAborts ==
  /\ file # NoFile =>
       /\ pc = "reading" => \A k \in 1..pos : ~LineFails(file[k])
       /\ Loaded /\ pc = "loaded" => FirstFailing(file) = 0
       /\ pc \in {"thrown", "failed"} =>
            /\ exc = "SyntaxError"
            /\ pos = FirstFailing(file)
  /\ pc = "failed" /\ exc = "SyntaxError" =>
       /\ pyErr = "ValueError"
       /\ ret = "NULL"
       /\ csr = EmptyVectors
       /\ Vectors = EmptyVectors
  /\ pyErr = "ValueError" => pc = "failed" /\ exc = "SyntaxError"

\* The build has failed on the second line, after a first record was stored
\* and after the label and indptr entry of the failing line were pushed,
\* with a line of the file still unread.
C6_Witness ==
  /\ pc = "failed" /\ pyErr = "ValueError" /\ phase = 1
  /\ pos = 2 /\ Len(file) = 3
  /\ ~WholeLineComment(file[1])
  /\ Len(parse_line(file[2], EmptyVectors, "a").v.labels) = 1

--------------------------------------------------------------------------
(* C10 *)

\* What load_svmlight_file gives for a file of these lines.
BuildOf(lines) ==
  LET r == Feed(lines, 1, EmptyVectors, "a")
  IN  IF r.exc = "none"
      THEN [ret |-> "tuple",
            csr |-> [r.v EXCEPT !.indptr = Append(@, Len(r.v.data))]]
      ELSE [ret |-> "NULL", csr |-> EmptyVectors]

\* C10: a whole-line comment is no error and changes none of the vectors:
\* at every point of the build the vectors are those the lines read so far
\* give with their whole-line comments removed, and the load returns what
\* it returns for the file without its whole-line comments.
C10_CommentLinesIgnored ==
  file # NoFile =>
    /\ pc = "reading" =>
         LET r == Feed(RecordLinesOf(SubSeq(file, 1, pos)), 1, EmptyVectors, "a")
         IN  r.exc = "none" /\ Vectors = r.v
    /\ pc \in {"loaded", "failed"} =>
         [ret |-> ret, csr |-> csr] = BuildOf(RecordLinesOf(file))

\* A dataset returned from a file whose first, middle and last lines are
\* whole-line comments or records, with a comment line between two records.
C10_Witness ==
  /\ pc = "loaded" /\ phase = 1
  /\ Len(file) = 3
  /\ WholeLineComment(file[2])
  /\ ~WholeLineComment(file[1]) /\ ~WholeLineComment(file[3])
  /\ Len(csr.labels) = 2

--------------------------------------------------------------------------
(* C3 *)

\* C3: a feature token whose index and value are separated by a character
\* other than ':' makes the build fail, wherever the token stands on the
\* line: no line that holds such a token is accepted.
C3_BadSeparatorRejected ==
  \A k \in 1..Len(file) :
    (LineAccepted(k) /\ ~WholeLineComment(file[k])) =>
      \A t \in 1..Len(FeatureTokens(file[k])) :
        LET tok == FeatureTokens(file[k])[t]
        IN  ~(PairShaped(tok) /\ SeparatorOf(tok) # ":")

--------------------------------------------------------------------------
(* C4 *)

\* C4: for an accepted line "<label> <pairs> # <text>" the comment stored
\* for its record is <text>, without the '#' and without the space after
\* it, and the pairs stored are those of the line without its comment.
C4_CommentIsText ==
  \A k \in 1..Len(file) :
    LET l == file[k]
        h == Find(l, "#")
    IN  (/\ Built /\ LineAccepted(k) /\ ~WholeLineComment(l)
         /\ h # 0 /\ h < Len(l) /\ l[h + 1] = " "
         /\ Len(Tokens(Payload(l))) >= 2
         /\ \A t \in 2..Len(Tokens(Payload(l))) :
              WellFormedPair(Tokens(Payload(l))[t])) =>
          /\ Arr.comments[RecOf(k)] = SubSeq(l, h + 2, Len(l))
          /\ RowOf(RecOf(k)) = PairsOf(Payload(l))

--------------------------------------------------------------------------
(* C5 *)

\* C5: no malformed feature pair is skipped: every feature token of an
\* accepted line has the shape <uint>:<float>, and the record of the line
\* holds as many pairs as the line has feature tokens.
C5_NoPairSkipped ==
  \A k \in 1..Len(file) :
    (Built /\ LineAccepted(k) /\ ~WholeLineComment(file[k])) =>
      LET ft == FeatureTokens(file[k])
      IN  /\ \A t \in 1..Len(ft) : WellFormedPair(ft[t])
          /\ RowEnd(RecOf(k)) - RowStart(RecOf(k)) = Len(ft)

--------------------------------------------------------------------------
(* C9 *)

\* C9: a line whose payload holds a numeric label and no second token is
\* rejected with "Missing qid label", with or without a trailing comment;
\* an accepted line has a second token, which is qid:<number> (and then
\* adds no feature) or a first feature pair <uint>:<float>.
C9_SecondTokenMandatory ==
  \A k \in 1..Len(file) :
    LET l == file[k]
        t == Tokens(Payload(l))
    IN  (file # NoFile /\ k <= pos /\ Len(l) > 0 /\ ~WholeLineComment(l)) =>
          /\ (Len(t) = 1 /\ NumberToken(t[1])) =>
               /\ ~LineAccepted(k)
               /\ pc = "thrown" => what = <<"Missing qid label">>
          /\ LineAccepted(k) =>
               /\ Len(t) >= 2
               /\ QidToken(t[2]) \/ WellFormedPair(t[2])
               /\ (Built /\ QidToken(t[2]) /\ Len(t) = 2) =>
                    RowEnd(RecOf(k)) = RowStart(RecOf(k))

--------------------------------------------------------------------------
(* C7 *)

\* C7: when the destination of dump_svmlight_file cannot be opened or a
\* write to it fails, the call does not return None.
C7_IoFailureReported == (pc = "dumped" /\ ioFailed) => dumpRet # "None"

--------------------------------------------------------------------------
(* C2 *)

\* Every comment of the dataset is empty.
NoComments(D) == \A i \in 1..Len(D.comments) : D.comments[i] = <<>>

\* C2: a dataset without comments written with zero_based = false and
\* loaded again is the same dataset: the load succeeds, and labels, indptr,
\* indices and data are those written.
C2_RoundTripOneBased ==
  (phase = 2 /\ ~zero_based /\ ~ioFailed /\ NoComments(orig)) =>
    /\ pc \notin {"thrown", "failed"}
    /\ pc = "loaded" =>
         /\ csr.labels = orig.labels
         /\ csr.indptr = orig.indptr
         /\ IndicesAsRead(csr.indices, zero_based) = orig.indices
         /\ csr.data = orig.data

--------------------------------------------------------------------------
(* C8 *)

\* C8: a dataset the loader produced, written with zero_based = true and
\* loaded again, loads and has the indices and the indptr it had.
C8_RoundTripZeroBased ==
  (phase = 2 /\ zero_based /\ ~ioFailed) =>
    /\ pc \notin {"thrown", "failed"}
    /\ pc = "loaded" =>
         /\ csr.indices = orig.indices
         /\ csr.indptr = orig.indptr

==========================================================================
